---- MODULE Spec2Model ----
(***************************************************************************)
(* SecuBeat: the delivery pipeline (src/src/network_sender.py), the filter *)
(* engine (src/src/config.py) and the audit event source with its session  *)
(* map (src/src/audit_parser.py), as state machines.                       *)
(***************************************************************************)
EXTENDS Integers, Sequences, FiniteSets, TLC

VARIABLES
    \* ---- ConfigManager ----
    config,          \* self.config: the six filter lists of SecuBeatConfig
    answer,          \* the latest should_include_* call: dimension, value, result
    \* ---- NetworkSender ----
    sink,            \* the server: "reliable" answers every request with 200
    server_url,      \* "None" or "url": config.get('server_url')
    retry_attempts,  \* config.get('retry_attempts', 3)
    event_queue,     \* self.event_queue, a FIFO of event ids
    sending,         \* self.sending
    sender_thread,   \* self.sender_thread: 0 (None) or the latest worker thread
    stats,           \* self.stats: sent_events, failed_events, last_sent, last_error
    stats_lock,      \* self.stats_lock: 0 (free) or the thread that holds it
    thr,             \* per thread: position (pc), local batch, loop index of the
                     \* retry loop (attempt), argument of the latest time.sleep of
                     \* its _send_batch call (delay), the envelope built by it
                     \* (payload); and, as history, the log entry of its batch (slot)
                     \* and the number of requests made for it (requests)
    \* ---- history of the delivery pipeline (observation only) ----
    offered,         \* number of send_event calls so far; also the last event id
    calls,           \* number of start_sending/stop_sending/flush_queue/get_stats
                     \* calls so far
    late_enqueue,    \* TRUE once an event was enqueued after a batch had been cut
    log,             \* one entry per _send_batch call, in call order: its events,
                     \* its result, the payloads of the requests made for it
    received,        \* the events of the requests answered with 200, in that order
    stop_queue,      \* the queue as it was at the latest stop_sending call
    flush_start,     \* the queue and the number of send_event calls as they were
                     \* at the latest flush_queue call, and the log entry of its send
    snapshot,        \* the dict returned by the latest get_stats call
    \* ---- LiveAuditParser and AuditLogParser ----
    env,             \* the host: euid 0 or not (root), an audit log file exists
                     \* and is readable or not (audit_file)
    running,         \* LiveAuditParser.running
    mode,            \* position of the start_monitoring generator: "new" (not
                     \* called), "created" (called, body not yet run), "start"
                     \* (in parse_audit_logs), "existing" (_parse_existing_logs),
                     \* "live" (_live_monitoring), "demo" (_demo_mode), "ended"
                     \* (it returned), "raised" (it raised); "idle" when no
                     \* generator is explored
    session_map,     \* self.session_map: session id -> address
    current_event,   \* local current_event of _parse_existing_logs
    yielded,         \* the event the consumer of start_monitoring got by the
                     \* latest step, <<>> if the step yielded none
    demo_session,    \* local session_id of _demo_mode
    \* ---- history of the event source (observation only) ----
    stop_called,     \* stop_monitoring was called after start_monitoring
    records_read,    \* a line of the historical query was read
    \* ---- history of the session map (observation only) ----
    hist,            \* the lines handed to _parse_login_event / _parse_logout_event
    \* ---- operations without state of their own ----
    call,            \* the latest call explored: operation (op), argument (arg)
                     \* and what it returned (result)
    \* ---- EnhancedCommandTracker ----
    command_history, \* self.command_history
    tracked          \* the number of calls of track_command_with_audit so far

vars == <<call, command_history, tracked, config, answer, sink, server_url, retry_attempts, event_queue, sending, sender_thread, stats, thr,
          offered, calls, late_enqueue, log, received, stop_queue,
          stats_lock, flush_start, snapshot,
          env, running, mode, session_map, current_event, yielded, demo_session,
          stop_called, records_read, hist>>

filterVars == <<config, answer>>

parserVars == <<env, running, mode, session_map, current_event, yielded, demo_session,
                stop_called, records_read, hist>>

callVars == <<call, command_history, tracked>>

senderVars == <<sink, server_url, retry_attempts, event_queue, sending, sender_thread, stats,
                thr, offered, calls, late_enqueue, log, received, stop_queue,
                stats_lock, flush_start, snapshot>>

-----------------------------------------------------------------------------
(* Bounds *)

MaxEvents == 3         \* send_event calls explored
MaxCalls == 2          \* start_sending / stop_sending / flush_queue calls explored
MaxRetryAttempts == 2  \* largest configured retry_attempts explored
BatchSize == 2         \* configured batch_size

MaxEntryLen == 1       \* longest entry of a filter list explored
MaxEntries == 2        \* longest filter list explored
MaxValueLen == 2       \* longest user / command / ip value explored

MaxHexLen == 2         \* longest proctitle token explored, in hex digits
MaxSessionLines == 3   \* login / logout lines handed to the session map handlers
MaxDemoEvents == 1     \* demo events explored
MaxPayloadLen == 6     \* longest payload handed to hex_to_string, in hex digits
MaxTracked == 1100     \* calls of track_command_with_audit explored

(* Program constants *)

RetryDelay == 5        \* retry_delay default
HistoryLimit == 1000   \* events kept in EnhancedCommandTracker.command_history

-----------------------------------------------------------------------------
(* ConfigManager filters, src/src/config.py. Strings are sequences of      *)
(* characters; a filter list is modelled by the set of its entries, since  *)
(* the code only tests membership and iterates to the first match.         *)

Chars == {"*", "a"}

RECURSIVE StringsOfLen(_)
StringsOfLen(n) ==
    IF n = 0 THEN {<< >>}
    ELSE {Append(w, c) : w \in StringsOfLen(n - 1), c \in Chars}

StringsUpTo(n) == UNION {StringsOfLen(k) : k \in 0 .. n}

Wildcard == <<"*">>

Entries == StringsUpTo(MaxEntryLen)
Values == StringsUpTo(MaxValueLen)
EntryLists == {l \in SUBSET Entries : Cardinality(l) <= MaxEntries}

\* SecuBeatConfig.__post_init__: the lists left at None
DefaultConfig ==
    [included_users |-> {Wildcard}, excluded_users |-> {},
     included_commands |-> {Wildcard}, excluded_commands |-> {},
     included_ips |-> {Wildcard}, excluded_ips |-> {}]

\* Python's `e in c` for two strings
Contains(c, e) ==
    \E i \in 0 .. (Len(c) - Len(e)) : SubSeq(c, i + 1, i + Len(e)) = e

\* a filter that looks at the included list first
should_include_user_include_first(username) ==
    IF Wildcard \in config.included_users THEN TRUE
    ELSE IF username \in config.excluded_users THEN FALSE
    ELSE username \in config.included_users

\* should_include_user, lines 236-246
should_include_user(username) ==
    IF username \in config.excluded_users THEN FALSE
    ELSE IF Wildcard \in config.included_users THEN TRUE
    ELSE username \in config.included_users

\* a command filter that compares for equality instead of containment
should_include_command_exact(command) ==
    IF \E excluded \in config.excluded_commands : Contains(command, excluded) THEN FALSE
    ELSE IF Wildcard \in config.included_commands THEN TRUE
    ELSE command \in config.included_commands

\* should_include_command, lines 248-263
should_include_command(command) ==
    IF \E excluded \in config.excluded_commands : Contains(command, excluded) THEN FALSE
    ELSE IF Wildcard \in config.included_commands THEN TRUE
    ELSE \E included \in config.included_commands : Contains(command, included)

\* should_include_ip, lines 265-275
should_include_ip(ip_address) ==
    IF ip_address \in config.excluded_ips THEN FALSE
    ELSE IF Wildcard \in config.included_ips THEN TRUE
    ELSE ip_address \in config.included_ips

NoAnswer == [dim |-> "none", value |-> << >>, result |-> FALSE]

\* the configuration is the default with the two lists of one dimension set
FilterInit ==
    /\ \E inc \in EntryLists, exc \in EntryLists :
          config \in {[DefaultConfig EXCEPT !.included_users = inc, !.excluded_users = exc],
                      [DefaultConfig EXCEPT !.included_commands = inc,
                                            !.excluded_commands = exc],
                      [DefaultConfig EXCEPT !.included_ips = inc, !.excluded_ips = exc]}
    /\ answer = NoAnswer

\* the state of the filters while another component is explored
FilterIdle == config = DefaultConfig /\ answer = NoAnswer

CallUser(v) ==
    /\ answer' = [dim |-> "user", value |-> v, result |-> should_include_user(v)]
    /\ UNCHANGED <<config, senderVars, parserVars, callVars>>

CallCommand(v) ==
    /\ answer' = [dim |-> "command", value |-> v, result |-> should_include_command(v)]
    /\ UNCHANGED <<config, senderVars, parserVars, callVars>>

CallIp(v) ==
    /\ answer' = [dim |-> "ip", value |-> v, result |-> should_include_ip(v)]
    /\ UNCHANGED <<config, senderVars, parserVars, callVars>>

-----------------------------------------------------------------------------
(* AuditLogParser, src/src/audit_parser.py. A line of the audit stream is  *)
(* modelled by what the parser's substring tests and regular expressions   *)
(* take from it: its type, and the text captured by session_pattern (ses), *)
(* user_pattern (uid), command_pattern (proctitle) and login_pattern (addr *)
(* and res). "None" stands for a pattern that does not match; a proctitle  *)
(* capture has at least one hex digit, so <<>> stands for no match there.  *)
(* Characters are code points; a string the parser builds from the line's  *)
(* bytes is a sequence of code points.                                     *)

None == "None"

SesIds == {"1", "2"}
Uids == {"0", "1000"}
Addrs == {"10.0.0.1", "10.0.0.2"}

\* the hex digits explored: "0" and "6", which make the bytes 00 (NUL), 06,
\* 60 and 66
HexDigits == {48, 54}

RECURSIVE TokensOfLen(_)
TokensOfLen(n) ==
    IF n = 0 THEN {<<>>}
    ELSE {Append(t, d) : t \in TokensOfLen(n - 1), d \in HexDigits}

HexTokens == UNION {TokensOfLen(n) : n \in 1 .. MaxHexLen}

ExecveLines ==
    [type : {"EXECVE"}, ses : SesIds \cup {None}, uid : Uids \cup {None},
     proctitle : HexTokens \cup {<<>>}]

\* addr "None": no addr=<digits and dots> in the line, or no res=success after it
LoginLines ==
    [type : {"USER_LOGIN"}, ses : SesIds \cup {None}, addr : Addrs \cup {None},
     res : {"success", "failed"}]

LogoutLines == [type : {"USER_END"}, ses : SesIds \cup {None}]

\* any other line, blank lines included
OtherLines == [type : {"OTHER"}]

Lines == ExecveLines \cup LoginLines \cup LogoutLines \cup OtherLines

\* the user database read by pwd.getpwuid
Passwd == "0" :> "root"

\* value of one hex digit, as bytes.fromhex reads it
HexVal(c) ==
    IF c >= 97 THEN c - 87 ELSE IF c >= 65 THEN c - 55 ELSE c - 48

fromhex(token) ==
    [i \in 1 .. (Len(token) \div 2) |->
        16 * HexVal(token[2 * i - 1]) + HexVal(token[2 * i])]

IsAscii(b) == b < 128

RECURSIVE decode(_)
\* bytes.decode('utf-8', errors='ignore'): a byte below 128 is its own code
\* point; a byte of C2..DF followed by a byte of 80..BF is the code point of
\* the two; any other byte is dropped. (Bytes of E0 and above start longer
\* sequences; the hex digits explored form no such byte.)
decode(bytes) ==
    IF bytes = <<>> THEN <<>>
    ELSE LET b == Head(bytes)
         IN  IF IsAscii(b) THEN <<b>> \o decode(Tail(bytes))
             ELSE IF /\ b \in 194 .. 223
                     /\ Len(bytes) >= 2
                     /\ bytes[2] \in 128 .. 191
                  THEN <<(b - 192) * 64 + (bytes[2] - 128)>>
                           \o decode(SubSeq(bytes, 3, Len(bytes)))
                  ELSE decode(Tail(bytes))

RECURSIVE encode(_)
\* str.encode('utf-8'), for code points below 2048
encode(str) ==
    IF str = <<>> THEN <<>>
    ELSE LET c == Head(str)
         IN  (IF c < 128 THEN <<c>> ELSE <<192 + (c \div 64), 128 + (c % 64)>>)
                 \o encode(Tail(str))

\* one hex digit of bytes.hex()
HexChar(v) == IF v < 10 THEN 48 + v ELSE 87 + v

\* bytes.hex()
hex(bytes) ==
    [i \in 1 .. 2 * Len(bytes) |->
        IF i % 2 = 1 THEN HexChar(bytes[(i + 1) \div 2] \div 16)
        ELSE HexChar(bytes[i \div 2] % 16)]

\* str.replace('\x00', ' ')
replace_nul(str) == [i \in DOMAIN str |-> IF str[i] = 0 THEN 32 ELSE str[i]]

\* the code points str.strip() removes, among those below 2048
Whitespace == (9 .. 13) \cup (28 .. 32) \cup {133, 160}

RECURSIVE lstrip(_)
lstrip(str) ==
    IF str # <<>> /\ Head(str) \in Whitespace THEN lstrip(Tail(str)) ELSE str

RECURSIVE rstrip(_)
rstrip(str) ==
    IF str # <<>> /\ str[Len(str)] \in Whitespace
    THEN rstrip(SubSeq(str, 1, Len(str) - 1))
    ELSE str

\* a strip that removes one leading white-space character and no more
strip_one(str) ==
    IF str # <<>> /\ Head(str) \in Whitespace THEN Tail(str) ELSE str

\* str.strip()
strip(str) == rstrip(lstrip(str))

\* a hex_to_string that gives the empty string when the token cannot be
\* decoded
hex_to_string_or_empty(hex_string) ==
    IF Len(hex_string) % 2 # 0
    THEN <<>>
    ELSE rstrip(lstrip(replace_nul(decode(fromhex(hex_string)))))

\* hex_to_string, lines 28-35: bytes.fromhex raises ValueError on an odd
\* number of digits, and the token is returned as it is
hex_to_string(hex_string) ==
    IF Len(hex_string) % 2 # 0
    THEN hex_string
    ELSE strip(replace_nul(decode(fromhex(hex_string))))

\* get_username_from_uid, lines 37-43
get_username_from_uid(uid) ==
    IF uid \in DOMAIN Passwd THEN Passwd[uid] ELSE "uid:" \o uid

\* datetime.now().isoformat()
IsoNow == "isoformat"

NoEvent == <<>>

\* a _parse_execve_event that fills in "unknown" for a session it cannot
\* resolve
parse_execve_event_unknown_ip(line) ==
    LET base == ("timestamp" :> IsoNow) @@ ("event_type" :> "command_execution")
        session == IF line.ses # None THEN "session_id" :> line.ses ELSE <<>>
        user == IF line.uid # None
                THEN ("user" :> get_username_from_uid(line.uid)) @@ ("uid" :> line.uid)
                ELSE <<>>
        command == IF line.proctitle # <<>>
                   THEN "command" :> hex_to_string(line.proctitle)
                   ELSE <<>>
        source_ip == IF line.ses # None /\ line.ses \in DOMAIN session_map
                     THEN "source_ip" :> session_map[line.ses]
                     ELSE "source_ip" :> "unknown"
    IN  base @@ session @@ user @@ command @@ source_ip

\* _parse_execve_event, lines 210-240
parse_execve_event(line) ==
    LET base == ("timestamp" :> IsoNow) @@ ("event_type" :> "command_execution")
        session == IF line.ses # None THEN "session_id" :> line.ses ELSE <<>>
        user == IF line.uid # None
                THEN ("user" :> get_username_from_uid(line.uid)) @@ ("uid" :> line.uid)
                ELSE <<>>
        command == IF line.proctitle # <<>>
                   THEN "command" :> hex_to_string(line.proctitle)
                   ELSE <<>>
        source_ip == IF line.ses # None /\ line.ses \in DOMAIN session_map
                     THEN "source_ip" :> session_map[line.ses]
                     ELSE <<>>
    IN  base @@ session @@ user @@ command @@ source_ip

\* _is_complete_event, lines 262-265
is_complete_event(event) ==
    \A field \in {"timestamp", "user", "command"} : field \in DOMAIN event

\* the test before `yield`, lines 92 and 133
Emits(event) == event # NoEvent /\ is_complete_event(event)

\* _parse_login_event, lines 242-251, as the map it leaves
parse_login_event(map, line) ==
    IF line.addr # None /\ line.res = "success" /\ line.ses # None
    THEN (line.ses :> line.addr) @@ map
    ELSE map

\* _parse_logout_event, lines 253-260, as the map it leaves
parse_logout_event_keep(map, line) == map

parse_logout_event(map, line) ==
    IF line.ses # None /\ line.ses \in DOMAIN map
    THEN [k \in DOMAIN map \ {line.ses} |-> map[k]]
    ELSE map

Envs == [root : BOOLEAN, audit_file : BOOLEAN]

ParserIdle ==
    /\ env = [root |-> FALSE, audit_file |-> FALSE]
    /\ running = FALSE
    /\ mode = "idle"
    /\ session_map = <<>>
    /\ current_event = NoEvent
    /\ yielded = NoEvent
    /\ demo_session = 1
    /\ stop_called = FALSE
    /\ records_read = FALSE
    /\ hist = <<>>

\* LiveAuditParser(), lines 271-273, on some host
SourceInit ==
    /\ env \in Envs
    /\ running = FALSE
    /\ mode = "new"
    /\ session_map = <<>>
    /\ current_event = NoEvent
    /\ yielded = NoEvent
    /\ demo_session = 1
    /\ stop_called = FALSE
    /\ records_read = FALSE
    /\ hist = <<>>

\* start_monitoring() is called, line 275: a generator function, so the call
\* returns the generator and runs nothing of the body
start_monitoring ==
    /\ mode = "new"
    /\ mode' = "created"
    /\ UNCHANGED <<env, running, session_map, current_event, yielded, demo_session,
                   stop_called, records_read, hist>>
    /\ UNCHANGED <<filterVars, senderVars, callVars>>

\* how _setup_audit_rules, lines 305-347, ends: "skipped" (not root, line 282),
\* "ok", "handled" (no auditctl, CalledProcessError or FileNotFoundError, all
\* caught), "os_error" (subprocess.run raises another OSError, e.g.
\* PermissionError for an auditctl that cannot be executed: not caught)
SetupOutcomes == {"skipped", "ok", "handled", "os_error"}

\* the first next() on the generator runs the body up to parse_audit_logs,
\* lines 277-288; an exception of _setup_audit_rules is raised again, line 298
StartMonitoringBody(setup) ==
    /\ mode = "created"
    /\ setup = "skipped" <=> ~env.root
    /\ running' = TRUE
    /\ mode' = IF setup = "os_error" THEN "raised" ELSE "start"
    /\ UNCHANGED <<env, session_map, current_event, yielded, demo_session,
                   stop_called, records_read, hist>>
    /\ UNCHANGED <<filterVars, senderVars, callVars>>

\* stop_monitoring, lines 300-303, called once start_monitoring was called
stop_monitoring ==
    /\ mode # "new"
    /\ running' = FALSE
    /\ stop_called' = TRUE
    /\ UNCHANGED <<env, mode, session_map, current_event, yielded, demo_session,
                   records_read, hist>>
    /\ UNCHANGED <<filterVars, senderVars, callVars>>

\* the loop of start_monitoring, lines 288-291, on an event of
\* parse_audit_logs: the event is passed on, or the loop is left
Passed(event) == IF running THEN event ELSE NoEvent

AfterYield(at) == IF running THEN at ELSE "ended"

\* _can_access_audit with the root test only
can_access_audit_root_only(ausearch_help) == env.root

\* _can_access_audit, lines 143-165: ausearch_help is TRUE when
\* `ausearch --help` runs and exits with 0
can_access_audit(ausearch_help) == env.root \/ env.audit_file \/ ausearch_help

\* parse_audit_logs, lines 45-63
parse_audit_logs(ausearch_help) ==
    /\ mode = "start"
    /\ mode' = IF can_access_audit(ausearch_help) THEN "existing" ELSE "demo"
    /\ UNCHANGED <<env, running, session_map, current_event, yielded, demo_session,
                   stop_called, records_read, hist>>
    /\ UNCHANGED <<filterVars, senderVars, callVars>>

\* one iteration of the loop of _parse_existing_logs, lines 79-94
ExistingLine(line) ==
    /\ mode = "existing"
    /\ LET event == IF line.type = "EXECVE" THEN parse_execve_event(line)
                    ELSE current_event
       IN  IF Emits(event)
           THEN /\ yielded' = Passed(event)
                /\ current_event' = NoEvent
                /\ mode' = AfterYield(mode)
           ELSE /\ yielded' = NoEvent
                /\ current_event' = event
                /\ mode' = mode
    /\ session_map' =
          IF line.type = "USER_LOGIN" THEN parse_login_event(session_map, line)
          ELSE IF line.type = "USER_END" THEN parse_logout_event(session_map, line)
          ELSE session_map
    /\ records_read' = TRUE
    /\ UNCHANGED <<env, running, demo_session, stop_called, hist>>
    /\ UNCHANGED <<filterVars, senderVars, callVars>>

\* end of the loop of _parse_existing_logs, lines 96-103: process.returncode
\* is None, since nothing waits for the process, so `returncode != 0` holds;
\* an exception of Popen or of the loop leads to _live_monitoring as well.
\* _live_monitoring, lines 107-120 and 135-137: audit_file is TRUE when one
\* of the audit files exists and is readable.
ExistingEnd(audit_file) ==
    /\ mode = "existing"
    /\ audit_file = env.audit_file
    /\ mode' = IF audit_file THEN "live" ELSE "demo"
    /\ current_event' = NoEvent
    /\ yielded' = NoEvent
    /\ UNCHANGED <<env, running, session_map, demo_session, stop_called, records_read,
                   hist>>
    /\ UNCHANGED <<filterVars, senderVars, callVars>>

\* one iteration of the loop of _live_monitoring, lines 129-134
LiveLine(line) ==
    /\ mode = "live"
    /\ LET event == IF line.type = "EXECVE" THEN parse_execve_event(line) ELSE NoEvent
       IN  IF Emits(event)
           THEN yielded' = Passed(event) /\ mode' = AfterYield(mode)
           ELSE yielded' = NoEvent /\ mode' = mode
    /\ UNCHANGED <<env, running, session_map, current_event, demo_session, stop_called,
                   records_read, hist>>
    /\ UNCHANGED <<filterVars, senderVars, callVars>>

\* end of the loop of _live_monitoring: the output of tail ends ("eof") and
\* the generators return, or reading it raises ("error", lines 139-141)
LiveEnd(how) ==
    /\ mode = "live"
    /\ mode' = IF how = "eof" THEN "ended" ELSE "demo"
    /\ yielded' = NoEvent
    /\ UNCHANGED <<env, running, session_map, current_event, demo_session, stop_called,
                   records_read, hist>>
    /\ UNCHANGED <<filterVars, senderVars, callVars>>

\* the draws of random.choice explored: the first and the last of each pool
demo_users == {"john", "ops"}
demo_ips == {"192.168.1.100", "172.16.0.10"}
demo_commands == {"ls -la", "docker ps"}
\* random.randint(1000, 9999): the two ends of the range
demo_pids == {1000, 9999}
demo_exit_codes == {0, 1}

\* the event built by _demo_mode, lines 192-202
demo_event(user, ip, command, session_id, pid, exit_code) ==
    [timestamp |-> IsoNow, event_type |-> "command_execution",
     user |-> user, source_ip |-> ip, command |-> command,
     session_id |-> ToString(session_id), pid |-> pid,
     exit_code |-> exit_code, demo_mode |-> TRUE]

\* one iteration of the loop of _demo_mode, lines 190-208
DemoEvent(user, ip, command, pid, exit_code) ==
    /\ mode = "demo"
    /\ demo_session <= MaxDemoEvents
    /\ yielded' = Passed(demo_event(user, ip, command, demo_session, pid, exit_code))
    /\ mode' = AfterYield(mode)
    /\ demo_session' = demo_session + 1
    /\ UNCHANGED <<env, running, session_map, current_event, stop_called, records_read,
                   hist>>
    /\ UNCHANGED <<filterVars, senderVars, callVars>>

\* _parse_login_event and _parse_logout_event called on a line, with the
\* call recorded
RecordLogin(line) ==
    /\ Len(hist) < MaxSessionLines
    /\ session_map' = parse_login_event(session_map, line)
    /\ hist' = Append(hist, line)
    /\ UNCHANGED <<env, running, mode, current_event, yielded, demo_session, stop_called,
                   records_read>>
    /\ UNCHANGED <<filterVars, senderVars, callVars>>

RecordLogout(line) ==
    /\ Len(hist) < MaxSessionLines
    /\ session_map' = parse_logout_event(session_map, line)
    /\ hist' = Append(hist, line)
    /\ UNCHANGED <<env, running, mode, current_event, yielded, demo_session, stop_called,
                   records_read>>
    /\ UNCHANGED <<filterVars, senderVars, callVars>>

-----------------------------------------------------------------------------
(* Threads: 0 is the thread calling start_sending, stop_sending and        *)
(* flush_queue, 1.. are the _sender_worker threads. A worker thread is     *)
(* created by every start_sending that passes the `if self.sending` guard, *)
(* which takes a stop_sending in between: MaxCalls calls create at most    *)
(* (MaxCalls + 1) \div 2 workers.                                          *)

Caller == 0
Workers == 1 .. ((MaxCalls + 1) \div 2)
Threads == {Caller} \cup Workers

Outcomes == {"ok", "status", "neterr", "error"}
    \* of one _make_request: status 200; any other status;
    \* requests.exceptions.RequestException; any other exception

NoBatch == << >>

NoFlush == [queue |-> << >>, offered |-> 0]

\* no call of get_stats has returned yet
NoSnapshot == [returned |-> FALSE]

\* no payload: the thread is not inside _send_batch
NoPayload == << >>

Idle(pc0) == [pc |-> pc0, batch |-> NoBatch, attempt |-> 0, delay |-> 0,
              slot |-> 0, requests |-> 0, payload |-> NoPayload]

\* the state of the sender while another component is explored
SenderIdle ==
    /\ sink = "reliable"
    /\ server_url = "url"
    /\ retry_attempts = 0
    /\ event_queue = << >>
    /\ sending = FALSE
    /\ sender_thread = 0
    /\ stats = [sent_events |-> 0, failed_events |-> 0,
                last_sent |-> "None", last_error |-> "None"]
    /\ thr = [t \in Threads |-> IF t = Caller THEN Idle("idle") ELSE Idle("none")]
    /\ offered = 0
    /\ calls = 0
    /\ late_enqueue = FALSE
    /\ log = << >>
    /\ received = << >>
    /\ stop_queue = << >>
    /\ stats_lock = 0
    /\ flush_start = NoFlush
    /\ snapshot = NoSnapshot

SenderInit ==
    /\ sink \in {"reliable", "unreliable"}
    /\ server_url \in {"None", "url"}
    /\ retry_attempts \in 0 .. MaxRetryAttempts
    /\ event_queue = << >>
    /\ sending = FALSE
    /\ sender_thread = 0
    /\ stats = [sent_events |-> 0, failed_events |-> 0,
                last_sent |-> "None", last_error |-> "None"]
    /\ thr = [t \in Threads |-> IF t = Caller THEN Idle("idle") ELSE Idle("none")]
    /\ offered = 0
    /\ calls = 0
    /\ late_enqueue = FALSE
    /\ log = << >>
    /\ received = << >>
    /\ stop_queue = << >>
    /\ stats_lock = 0
    /\ flush_start = NoFlush
    /\ snapshot = NoSnapshot

-----------------------------------------------------------------------------
(* Helpers *)

Last(s) == s[Len(s)]

\* the events of a sequence of events, as a set
Range(s) == {s[i] : i \in 1 .. Len(s)}

\* number of events the queue has accepted so far (send_event with a server_url)
Accepted == IF server_url = "None" THEN 0 ELSE offered

\* a worker that goes round its loop without `batch = []`
Returned_batch_kept(t) ==
    IF t = Caller THEN Idle("idle") ELSE [Idle("loop") EXCEPT !.batch = thr[t].batch]

\* what a thread does when _send_batch returns: the worker resets its batch
\* (line 96) and re-evaluates `while self.sending`; flush_queue returns
Returned(t) == IF t = Caller THEN Idle("idle") ELSE Idle("loop")

\* a worker that lets the batch grow one event beyond batch_size
CollectMore_off_by_one(batch) == Len(batch) <= BatchSize /\ sending

\* inner loop condition of the worker, line 86
CollectMore(batch) == Len(batch) < BatchSize /\ sending

\* time.sleep argument of line 135 for the 0-based loop index `attempt`
Backoff(attempt) == RetryDelay * (attempt + 1)

\* a retry loop without the `return` of line 124
AfterAttempt_no_return(o, attempt) ==
    IF o \in {"ok", "status"}
    THEN IF attempt + 1 < retry_attempts THEN "send" ELSE "fail"
    ELSE IF o = "neterr" /\ attempt < retry_attempts - 1 THEN "sleep" ELSE "fail"

\* where the retry loop of _send_batch goes after one attempt (0-based index
\* `attempt`) ended with outcome o: "return" (line 124), "sleep" (line 135),
\* "send" (next iteration), "fail" (loop exhausted or break, line 140)
AfterAttempt(o, attempt) ==
    CASE o = "ok"     -> "return"
      [] o = "status" -> IF attempt + 1 < retry_attempts THEN "send" ELSE "fail"
      [] o = "neterr" -> IF attempt < retry_attempts - 1 THEN "sleep" ELSE "fail"
      [] o = "error"  -> "fail"

\* the first statement under stats_lock after one attempt with outcome o
\* (line 120; lines 131-132)
StatsAfterAttempt(o, n) ==
    CASE o = "ok"     -> [stats EXCEPT !.sent_events = @ + n]
      [] o = "neterr" -> [stats EXCEPT !.last_error = "set"]
      [] OTHER        -> stats

\* a failure path that counts the batch as sent
StatsAfterFailure_as_sent(n) == [stats EXCEPT !.sent_events = @ + n]

\* the statistics after all attempts failed (lines 141-142)
StatsAfterFailure(n) == [stats EXCEPT !.failed_events = @ + n]

\* the time a thread reads from the clock, counted from its call of
\* _send_batch in requests made
Now(t) == thr[t].requests

\* the envelope of lines 107-112, built at time `time`
Payload(events, time) ==
    [timestamp |-> time, source |-> "secu-beat", events |-> events, count |-> Len(events)]

\* a retry loop that builds the envelope anew for every attempt
PayloadSent_rebuilt(t) == Payload(thr[t].batch, Now(t))

\* the argument of _make_request, line 116: the dict built before the loop
PayloadSent(t) == thr[t].payload

\* the entry of the log for a call of _send_batch with `batch`
LogEntry(batch) == [events |-> batch, res |-> "pending", payloads |-> {}]

\* _send_batch is entered by thread t with a non-empty batch: the payload is
\* built (lines 107-112) and the retry loop starts, or is skipped when
\* range(retry_attempts) is empty
EnterSendBatch(t, batch) ==
    /\ thr' = [thr EXCEPT ![t] = [pc |-> IF retry_attempts > 0 THEN "send" ELSE "fail",
                                  batch |-> batch, attempt |-> 0, delay |-> 0,
                                  slot |-> Len(log) + 1, requests |-> 0,
                                  payload |-> Payload(batch, Now(t))]]
    /\ log' = Append(log, LogEntry(batch))

-----------------------------------------------------------------------------
(* NetworkSender: public methods *)

\* start_sending, lines 49-57
start_sending ==
    /\ thr[Caller].pc = "idle"
    /\ calls < MaxCalls
    /\ calls' = calls + 1
    /\ UNCHANGED late_enqueue
    /\ IF sending
       THEN UNCHANGED <<sending, sender_thread, thr>>
       ELSE \E w \in Workers :
              /\ thr[w].pc = "none"
              /\ \A v \in Workers : thr[v].pc = "none" => w <= v
              /\ sending' = TRUE
              /\ sender_thread' = w
              /\ thr' = [thr EXCEPT ![w] = Idle("loop")]
    /\ UNCHANGED <<filterVars, parserVars, callVars, sink, server_url, retry_attempts, event_queue, stats, offered, log,
                   received, stop_queue,
                   stats_lock, flush_start, snapshot>>

\* stop_sending up to the join, lines 59-63
stop_sending ==
    /\ thr[Caller].pc = "idle"
    /\ calls < MaxCalls
    /\ calls' = calls + 1
    /\ UNCHANGED late_enqueue
    /\ sending' = FALSE
    /\ stop_queue' = event_queue
    /\ thr' = [thr EXCEPT ![Caller].pc = IF sender_thread # 0 THEN "join" ELSE "idle"]
    /\ UNCHANGED <<filterVars, parserVars, callVars, sink, server_url, retry_attempts, event_queue, sender_thread, stats,
                   offered, log, received, stats_lock, flush_start, snapshot>>

\* MultiSender.stop_all, lines 302-308, for the HTTP sender: a NetworkSender
\* has stop_sending, so the flush_queue branch of the elif is not taken
stop_all == stop_sending

\* join(timeout=5) returns: the thread has ended, or 5 s have passed. The
\* worker can outlast 5 s only inside _send_batch (a request with timeout 30 s,
\* backoff sleeps of 5 s and more); its queue poll lasts at most 1 s.
JoinReturn ==
    /\ thr[Caller].pc = "join"
    /\ thr[sender_thread].pc \in {"done", "send", "sleep", "fail", "locked"}
    /\ thr' = [thr EXCEPT ![Caller].pc = "idle"]
    /\ UNCHANGED <<filterVars, parserVars, callVars, sink, server_url, retry_attempts, event_queue, sending, sender_thread,
                   stats, offered, calls, late_enqueue, log, received, stop_queue,
                   stats_lock, flush_start, snapshot>>

\* a put that makes room by dropping the oldest event
put_drop_oldest(queue, event) ==
    IF queue = << >> THEN <<event>> ELSE Append(Tail(queue), event)

\* Queue.put on the queue of line 36, created without maxsize: the queue has
\* no capacity, put appends and does not block
put(queue, event) == Append(queue, event)

\* send_event, lines 66-72; the event's id is its position in the call order
send_event ==
    /\ offered < MaxEvents
    /\ offered' = offered + 1
    /\ event_queue' = IF server_url = "None" THEN event_queue
                      ELSE put(event_queue, offered + 1)
    /\ late_enqueue' = (late_enqueue \/ (server_url # "None" /\ log # << >>))
    /\ UNCHANGED <<filterVars, parserVars, callVars, sink, server_url, retry_attempts, sending, sender_thread, stats, thr,
                   calls, log, received, stop_queue,
                   stats_lock, flush_start, snapshot>>

\* flush_queue is called, line 174
flush_queue ==
    /\ thr[Caller].pc = "idle"
    /\ calls < MaxCalls
    /\ calls' = calls + 1
    /\ UNCHANGED late_enqueue
    /\ thr' = [thr EXCEPT ![Caller] = Idle("fget")]
    /\ flush_start' = [queue |-> event_queue, offered |-> offered]
    /\ UNCHANGED <<filterVars, parserVars, callVars, sink, server_url, retry_attempts, event_queue, sending, sender_thread,
                   stats, offered, log, received, stop_queue,
                   stats_lock, snapshot>>

\* one iteration of the collecting loop of flush_queue, lines 177-182, and
\* the final send, lines 185-186
FlushCollect ==
    /\ thr[Caller].pc = "fget"
    /\ IF event_queue # << >>
       THEN /\ thr' = [thr EXCEPT ![Caller].batch = Append(@, Head(event_queue))]
            /\ event_queue' = Tail(event_queue)
            /\ UNCHANGED <<log, flush_start>>
       ELSE /\ UNCHANGED event_queue
            /\ flush_start' = NoFlush
            /\ IF thr[Caller].batch # NoBatch
               THEN EnterSendBatch(Caller, thr[Caller].batch)
               ELSE thr' = [thr EXCEPT ![Caller] = Idle("idle")] /\ UNCHANGED log
    /\ UNCHANGED <<filterVars, parserVars, callVars, sink, server_url, retry_attempts, sending, sender_thread, stats,
                   offered, calls, late_enqueue, received, stop_queue,
                   stats_lock, snapshot>>

\* a get_stats that does not take stats_lock
CanRead_without_lock == TRUE

\* `with self.stats_lock` of get_stats, line 169, can be entered
CanRead == stats_lock = 0

\* get_stats, lines 167-170, called by any thread: the copy of the dict is
\* taken with the lock held
get_stats ==
    /\ calls < MaxCalls
    /\ calls' = calls + 1
    /\ CanRead
    /\ snapshot' = stats
    /\ UNCHANGED <<filterVars, parserVars, callVars, sink, server_url, retry_attempts, event_queue, sending, sender_thread,
                   stats, thr, offered, late_enqueue, log, received, stop_queue,
                   stats_lock, flush_start>>

-----------------------------------------------------------------------------
(* NetworkSender._sender_worker, lines 79-100 *)

\* `while self.sending`, line 83, and with it the first evaluation of the
\* inner loop condition, whose batch is empty there
WorkerLoop(w) ==
    /\ thr[w].pc = "loop"
    /\ thr' = [thr EXCEPT ![w].pc = IF sending THEN "get" ELSE "done"]
    /\ UNCHANGED <<filterVars, parserVars, callVars, sink, server_url, retry_attempts, event_queue, sending, sender_thread,
                   stats, offered, calls, late_enqueue, log, received, stop_queue,
                   stats_lock, flush_start, snapshot>>

\* a worker that calls _send_batch without the test of line 94
WorkerDispatch_without_test(w) == EnterSendBatch(w, thr[w].batch)

\* the batch is handed over, lines 94-96, or the outer loop goes round
WorkerDispatch(w) ==
    IF thr[w].batch # NoBatch
    THEN EnterSendBatch(w, thr[w].batch)
    ELSE thr' = [thr EXCEPT ![w].pc = "loop"] /\ UNCHANGED log

\* `while len(batch) < self.batch_size and self.sending`, line 86
WorkerCollect(w) ==
    /\ thr[w].pc = "collect"
    /\ IF CollectMore(thr[w].batch)
       THEN thr' = [thr EXCEPT ![w].pc = "get"] /\ UNCHANGED log
       ELSE WorkerDispatch(w)
    /\ UNCHANGED <<filterVars, parserVars, callVars, sink, server_url, retry_attempts, event_queue, sending, sender_thread,
                   stats, offered, calls, late_enqueue, received, stop_queue,
                   stats_lock, flush_start, snapshot>>

\* event_queue.get(timeout=1.0) returns an event, lines 88-89
WorkerGet(w) ==
    /\ thr[w].pc = "get"
    /\ event_queue # << >>
    /\ thr' = [thr EXCEPT ![w].batch = Append(@, Head(event_queue)),
                          ![w].pc = "collect"]
    /\ event_queue' = Tail(event_queue)
    /\ UNCHANGED <<filterVars, parserVars, callVars, sink, server_url, retry_attempts, sending, sender_thread, stats,
                   offered, calls, late_enqueue, log, received, stop_queue,
                   stats_lock, flush_start, snapshot>>

\* event_queue.get(timeout=1.0) raises Empty: break, lines 90-91
WorkerGetTimeout(w) ==
    /\ thr[w].pc = "get"
    /\ event_queue = << >>
    /\ WorkerDispatch(w)
    /\ UNCHANGED <<filterVars, parserVars, callVars, sink, server_url, retry_attempts, event_queue, sending, sender_thread,
                   stats, offered, calls, late_enqueue, received, stop_queue,
                   stats_lock, flush_start, snapshot>>

-----------------------------------------------------------------------------
(* NetworkSender._send_batch, lines 102-144, run by a worker or by the      *)
(* caller of flush_queue                                                    *)

\* one iteration of the retry loop, lines 114-138. The statistics are
\* written with stats_lock held (lines 119 and 131); after a 200 the lock is
\* held over two statements, and the step ends between them
SendAttempt(t, o) ==
    /\ thr[t].pc = "send"
    /\ sink = "reliable" => o = "ok"
    /\ o \in {"ok", "neterr"} => stats_lock = 0
    /\ LET n    == Len(thr[t].batch)
           to   == AfterAttempt(o, thr[t].attempt)
       IN /\ stats' = StatsAfterAttempt(o, n)
          /\ log' = [log EXCEPT ![thr[t].slot].res = IF o = "ok" THEN "ok" ELSE @,
                                ![thr[t].slot].payloads = @ \cup {PayloadSent(t)}]
          /\ received' = IF o = "ok" THEN received \o thr[t].batch ELSE received
          /\ stats_lock' = IF to = "return" THEN t ELSE stats_lock
          /\ thr' = [thr EXCEPT ![t] =
                        CASE to = "return" -> [Returned(t) EXCEPT !.pc = "locked"]
                          [] to = "send"   -> [@ EXCEPT !.attempt = @ + 1,
                                                         !.requests = @ + 1]
                          [] to = "sleep"  -> [@ EXCEPT !.pc = "sleep",
                                                         !.delay = Backoff(thr[t].attempt),
                                                         !.requests = @ + 1]
                          [] to = "fail"   -> [@ EXCEPT !.pc = "fail",
                                                         !.requests = @ + 1]]
    /\ UNCHANGED <<filterVars, parserVars, callVars, sink, server_url, retry_attempts, event_queue, sending, sender_thread,
                   offered, calls, late_enqueue, stop_queue,
                   flush_start, snapshot>>

\* the second statement under stats_lock after a 200, line 121, the release
\* of the lock and the return of line 124
SendCommit(t) ==
    /\ thr[t].pc = "locked"
    /\ stats' = [stats EXCEPT !.last_sent = "set"]
    /\ stats_lock' = 0
    /\ thr' = [thr EXCEPT ![t] = Returned(t)]
    /\ UNCHANGED <<filterVars, parserVars, callVars, sink, server_url, retry_attempts, event_queue, sending, sender_thread,
                   offered, calls, late_enqueue, log, received, stop_queue,
                   flush_start, snapshot>>

\* the backoff sleep of line 135 ends and the loop goes to its next iteration
SendWake(t) ==
    /\ thr[t].pc = "sleep"
    /\ thr' = [thr EXCEPT ![t].pc = "send", ![t].attempt = @ + 1]
    /\ UNCHANGED <<filterVars, parserVars, callVars, sink, server_url, retry_attempts, event_queue, sending, sender_thread,
                   stats, offered, calls, late_enqueue, log, received, stop_queue,
                   stats_lock, flush_start, snapshot>>

\* all attempts failed, lines 140-144
SendFailed(t) ==
    /\ thr[t].pc = "fail"
    /\ stats_lock = 0
    /\ stats' = StatsAfterFailure(Len(thr[t].batch))
    /\ log' = [log EXCEPT ![thr[t].slot].res = "failed"]
    /\ thr' = [thr EXCEPT ![t] = Returned(t)]
    /\ UNCHANGED <<filterVars, parserVars, callVars, sink, server_url, retry_attempts, event_queue, sending, sender_thread,
                   offered, calls, late_enqueue, received, stop_queue,
                   stats_lock, flush_start, snapshot>>

-----------------------------------------------------------------------------
(* Operations without state of their own: each step is one call *)

NoCall == [op |-> "none", arg |-> << >>, result |-> << >>]

\* no call is explored
CallIdle == call = NoCall /\ command_history = << >> /\ tracked = 0

\* dict.get(key, default)
Get(event, key, default) == IF key \in DOMAIN event THEN event[key] ELSE default

-----------------------------------------------------------------------------
(* WebhookSender and SyslogSender, lines 190-254 *)

\* the formatted events handed to the sinks: user, source_ip and command are
\* present or not
SinkEvents ==
    {u @@ i @@ c @@ [version |-> "1.0"] :
        u \in {<< >>} \cup {[user |-> x] : x \in {"john", "ops"}},
        i \in {<< >>, [source_ip |-> "192.168.1.100"]},
        c \in {<< >>, [command |-> "ls -la"]}}

\* of requests.post: status 200, another status, an exception
PostOutcomes == {"200", "status", "error"}

\* a webhook sender that posts again after a failure
Posts_again_on_failure(event, signed, post) ==
    IF post = "200" THEN <<[json |-> event, signed |-> signed]>>
    ELSE <<[json |-> event, signed |-> signed], [json |-> event, signed |-> signed]>>

\* the calls of requests.post made by WebhookSender.send_event, lines 214-219
Posts(event, signed, post) == <<[json |-> event, signed |-> signed]>>

\* WebhookSender.send_event, lines 196-225. secret: a secret is configured;
\* sign: the signature of lines 202-211 is computed ("ok") or the
\* computation raises ("error": a secret that is no string, an event that
\* json.dumps cannot serialise); post: the outcome of requests.post.
\* The result: the requests made, the level of the record logged, and
\* whether an exception left the method
webhook_send_event(event, secret, sign, post) ==
    IF secret /\ sign = "error"
    THEN [requests |-> << >>, logged |-> "error", raised |-> FALSE]
    ELSE [requests |-> Posts(event, secret, post),
          logged   |-> CASE post = "200"    -> "none"
                         [] post = "status" -> "warning"
                         [] post = "error"  -> "error",
          raised   |-> FALSE]

\* the message of line 245
SyslogMessage(event) ==
    "SecuBeat: " \o Get(event, "user", "unknown") \o "@"
        \o Get(event, "source_ip", "unknown") \o " executed: "
        \o Get(event, "command", "")

\* SyslogSender.send_event, lines 235-254. sock: socket.socket returns
\* ("ok") or raises OSError ("error"); sendto: the outcome of sock.sendto.
\* The result: the datagrams handed to sendto, the level of the record
\* logged, and whether an exception left the method
syslog_send_event(event, sock, sendto) ==
    IF sock = "error"
    THEN [datagrams |-> << >>, logged |-> "error", raised |-> FALSE]
    ELSE [datagrams |-> <<SyslogMessage(event)>>,
          logged    |-> IF sendto = "ok" THEN "none" ELSE "error",
          raised    |-> FALSE]

WebhookSend(event, secret, sign, post) ==
    /\ ~secret => sign = "ok"
    /\ call' = [op |-> "WebhookSender.send_event",
                arg |-> [event |-> event, secret |-> secret, sign |-> sign, post |-> post],
                result |-> webhook_send_event(event, secret, sign, post)]
    /\ UNCHANGED <<filterVars, senderVars, parserVars, command_history, tracked>>

SyslogSend(event, sock, sendto) ==
    /\ sock = "error" => sendto = "ok"
    /\ call' = [op |-> "SyslogSender.send_event",
                arg |-> [event |-> event, sock |-> sock, sendto |-> sendto],
                result |-> syslog_send_event(event, sock, sendto)]
    /\ UNCHANGED <<filterVars, senderVars, parserVars, command_history, tracked>>

InitSinks == CallIdle /\ SenderIdle /\ FilterIdle /\ ParserIdle

NextSinks ==
    \/ \E event \in SinkEvents, secret \in BOOLEAN, sign \in {"ok", "error"},
          post \in PostOutcomes : WebhookSend(event, secret, sign, post)
    \/ \E event \in SinkEvents, sock \in {"ok", "error"}, sendto \in {"ok", "error"} :
          SyslogSend(event, sock, sendto)

SpecSinks == InitSinks /\ [][NextSinks]_vars

-----------------------------------------------------------------------------
(* JSONFormatter.format_command_event (src/src/json_formatter.py, lines     *)
(* 29-49) and the path of an event from the source to the sinks            *)
(* (src/secu-beat.py, lines 148-168)                                        *)

\* `v is None`, for a value of any type
IsNone(v) == ToString(v) = ToString(None)

\* the keys of the dict built in lines 31-44
FormattedKeys ==
    {"version", "timestamp", "event_type", "user", "source_ip", "command",
     "session_id", "pid", "exit_code", "execution_time", "terminal", "result"}

\* the second argument of event.get in lines 33-43; "{}" is the empty dict
Default(key) ==
    CASE key = "timestamp" -> IsoNow
      [] key = "user"      -> "unknown"
      [] key = "source_ip" -> "unknown"
      [] key = "command"   -> ""
      [] key = "result"    -> "{}"
      [] OTHER             -> None

\* the value of one key in the dict of lines 31-44
Looked_up(event, key) ==
    CASE key = "version"    -> "1.0"
      [] key = "event_type" -> "command_execution"
      [] OTHER              -> Get(event, key, Default(key))

\* format_command_event, lines 29-49: the dict of lines 31-44 without the
\* keys whose value is None (line 47)
format_command_event(event) ==
    LET kept == {k \in FormattedKeys : ~IsNone(Looked_up(event, k))}
    IN  [k \in kept |-> Looked_up(event, k)]

\* OutputManager.get_formatted_event, json_formatter.py lines 260-262
get_formatted_event(event) == format_command_event(event)

\* EnhancedCommandTracker.track_command_with_audit, command_tracker.py lines
\* 222-246, for a pid that no tracked process has (get_process_info returns
\* None): the copy of the event, with the dict of get_command_result under
\* 'result' when the event has a command and a pid
track_command_with_audit(audit_event) ==
    IF /\ ~IsNone(Get(audit_event, "pid", None))
       /\ ~IsNone(Get(audit_event, "command", None))
    THEN ("result" :> "command_result") @@ audit_event
    ELSE audit_event

\* a history that keeps its first HistoryLimit events
store_keep_first(history, enhanced_event) ==
    LET appended == Append(history, enhanced_event)
    IN  IF Len(appended) > HistoryLimit
        THEN SubSeq(appended, 1, HistoryLimit)
        ELSE appended

\* the history track_command_with_audit leaves, lines 241-246: append, then
\* `self.command_history[-1000:]` when it has more than 1000 events
store(history, enhanced_event) ==
    LET appended == Append(history, enhanced_event)
    IN  IF Len(appended) > HistoryLimit
        THEN SubSeq(appended, Len(appended) - HistoryLimit + 1, Len(appended))
        ELSE appended

\* the keys of the events given to format_command_event that are varied:
\* each is absent, None or has a value
FormatInputKeys ==
    {"timestamp", "user", "source_ip", "command", "session_id", "terminal", "result"}

SampleValue(key) ==
    CASE key = "timestamp"  -> "2024-01-01T00:00:00"
      [] key = "user"       -> "john"
      [] key = "source_ip"  -> "192.168.1.100"
      [] key = "command"    -> "ls -la"
      [] key = "session_id" -> "1"
      [] key = "terminal"   -> "pts/0"
      [] key = "result"     -> "command_result"

FormatInputs ==
    {[k \in {k \in FormatInputKeys : f[k] # "absent"} |->
            IF f[k] = "null" THEN None ELSE SampleValue(k)] :
        f \in [FormatInputKeys -> {"absent", "null", "value"}]}

\* the events the source yields: synthetic ones of _demo_mode and complete
\* ones parsed from EXECVE lines, each with where it comes from
DemoEvents ==
    {[origin |-> "demo",
      event |-> demo_event(user, ip, command, 1, pid, exit_code)] :
        user \in demo_users, ip \in demo_ips, command \in demo_commands,
        pid \in demo_pids, exit_code \in demo_exit_codes}

AuditEvents ==
    {[origin |-> "audit", event |-> parse_execve_event(line)] :
        line \in {l \in ExecveLines : is_complete_event(parse_execve_event(l))}}

\* one call of format_command_event, on a formatter that has not been
\* called before (the formatter keeps nothing from one call to the next)
FormatCommandEvent(event) ==
    /\ call = NoCall
    /\ call' = [op |-> "format_command_event", arg |-> event,
                result |-> format_command_event(event)]
    /\ UNCHANGED <<filterVars, senderVars, parserVars, command_history, tracked>>

\* one iteration of SecuBeat._monitoring_loop, secu-beat.py lines 150-168,
\* for an event that passes the filters (the default configuration passes
\* every event): the event is enhanced, formatted and handed to the sinks;
\* the result is the argument of network_sender.send_event
MonitoringLoop(source_event) ==
    /\ call = NoCall
    /\ call' = [op |-> "_monitoring_loop", arg |-> source_event,
                result |-> get_formatted_event(
                               track_command_with_audit(source_event.event))]
    /\ command_history' = store(command_history,
                                track_command_with_audit(source_event.event))
    /\ tracked' = tracked + 1
    /\ UNCHANGED <<filterVars, senderVars, parserVars>>

InitFormat == CallIdle /\ SenderIdle /\ FilterIdle /\ ParserIdle

NextFormat ==
    \/ \E event \in FormatInputs : FormatCommandEvent(event)
    \/ \E source_event \in DemoEvents \cup AuditEvents : MonitoringLoop(source_event)

SpecFormat == InitFormat /\ [][NextFormat]_vars

-----------------------------------------------------------------------------
(* EnhancedCommandTracker, command_tracker.py lines 215-258: the calls of  *)
(* track_command_with_audit on one tracker                                 *)

\* the audit event of the n-th call: the events are told apart by their
\* timestamp
AuditEventNo(n) == [timestamp |-> n, user |-> "john", command |-> "ls -la"]

\* one call of track_command_with_audit, lines 222-246
TrackCommand ==
    /\ tracked < MaxTracked
    /\ LET enhanced_event == track_command_with_audit(AuditEventNo(tracked + 1))
       IN  /\ command_history' = store(command_history, enhanced_event)
           /\ call' = [op |-> "track_command_with_audit",
                       arg |-> AuditEventNo(tracked + 1), result |-> enhanced_event]
    /\ tracked' = tracked + 1
    /\ UNCHANGED <<filterVars, senderVars, parserVars>>

InitTracker == CallIdle /\ SenderIdle /\ FilterIdle /\ ParserIdle

NextTracker == TrackCommand

SpecTracker == InitTracker /\ [][NextTracker]_vars

-----------------------------------------------------------------------------
(* MultiSender, network_sender.py lines 257-308: one call of send_event on *)
(* a MultiSender set up from a configuration.  A sender's send_event is    *)
(* modelled by its invocation, with the event it is given, and by whether  *)
(* it raises an Exception.                                                 *)

SenderNames == {"NetworkSender", "WebhookSender", "SyslogSender"}

\* the configurations: each of server_url, webhook_url and syslog_server is
\* set or not
SenderConfigs == [server_url : BOOLEAN, webhook_url : BOOLEAN, syslog_server : BOOLEAN]

\* _setup_senders, lines 267-287, as the list self.senders it leaves
setup_senders(cfg) ==
    LET http    == IF cfg.server_url THEN <<"NetworkSender">> ELSE << >>
        webhook == IF cfg.webhook_url THEN Append(http, "WebhookSender") ELSE http
        syslog  == IF cfg.syslog_server THEN Append(webhook, "SyslogSender") ELSE webhook
    IN  syslog

\* the record of a call of MultiSender.send_event: the invocations of
\* sender.send_event in the order they were made, and whether an exception
\* left the call
Dispatched(invoked, raised) == [invoked |-> invoked, raised |-> raised]

\* a send_event without the try of line 292: the first exception of a
\* sender ends the loop and leaves the call
multi_send_event_without_try(senders, event, raising) ==
    LET failing == {i \in 1 .. Len(senders) : senders[i] \in raising}
        last    == IF failing = {} THEN Len(senders)
                   ELSE CHOOSE i \in failing : \A j \in failing : i <= j
    IN  Dispatched([i \in 1 .. last |-> [sender |-> senders[i], event |-> event]],
                   failing # {})

\* MultiSender.send_event, lines 289-295: `for sender in self.senders` calls
\* sender.send_event(event) inside a try; the exception of a sender is
\* logged and the loop goes on with the next sender
multi_send_event(senders, event, raising) ==
    Dispatched([i \in 1 .. Len(senders) |-> [sender |-> senders[i], event |-> event]],
               FALSE)

\* one call of send_event on a MultiSender built from cfg; the senders of
\* `raising` raise an Exception when their send_event is called
MultiSendEvent(cfg, event, raising) ==
    /\ call = NoCall
    /\ call' = [op |-> "MultiSender.send_event",
                arg |-> [config |-> cfg, event |-> event, raising |-> raising],
                result |-> multi_send_event(setup_senders(cfg), event, raising)]
    /\ UNCHANGED <<filterVars, senderVars, parserVars, command_history, tracked>>

InitMulti == CallIdle /\ SenderIdle /\ FilterIdle /\ ParserIdle

NextMulti ==
    \E cfg \in SenderConfigs, event \in SinkEvents, raising \in SUBSET SenderNames :
        MultiSendEvent(cfg, event, raising)

SpecMulti == InitMulti /\ [][NextMulti]_vars

-----------------------------------------------------------------------------
(* SecuBeat._should_process_event and the filtering of _monitoring_loop,   *)
(* secu-beat.py lines 148-197, one iteration on a configured ConfigManager. *)
(* The values of the event are strings of the filter model.                *)

\* the events handed to the loop: complete events with a non-empty user and
\* a non-empty command; source_ip is there only for a correlated session
LoopEvents ==
    {[user |-> u, command |-> c] @@ i :
        u \in Values \ {<< >>}, c \in Values \ {<< >>},
        i \in {<< >>} \cup {[source_ip |-> a] : a \in Values \ {<< >>}}}

\* _should_process_event, lines 179-197: `if user and not ...`, an empty
\* string being false
should_process_event(event) ==
    LET user      == Get(event, "user", << >>)
        command   == Get(event, "command", << >>)
        source_ip == Get(event, "source_ip", << >>)
    IN  IF user # << >> /\ ~should_include_user(user) THEN FALSE
        ELSE IF command # << >> /\ ~should_include_command(command) THEN FALSE
        ELSE IF source_ip # << >> /\ ~should_include_ip(source_ip) THEN FALSE
        ELSE TRUE

\* what an iteration leaves for an event that is filtered out (`continue`,
\* line 157)
Skipped == [skipped |-> TRUE]

\* one iteration of _monitoring_loop on a running SecuBeat, lines 151-168:
\* the event is skipped, or enhanced, output and handed to the sinks; the
\* result is the argument of output_event and of network_sender.send_event
MonitoringIteration(audit_event) ==
    /\ call = NoCall
    /\ call' = [op |-> "_monitoring_loop", arg |-> audit_event,
                result |-> IF should_process_event(audit_event)
                           THEN track_command_with_audit(audit_event)
                           ELSE Skipped]
    /\ IF should_process_event(audit_event)
       THEN /\ command_history' = store(command_history,
                                        track_command_with_audit(audit_event))
            /\ tracked' = tracked + 1
       ELSE UNCHANGED <<command_history, tracked>>
    /\ UNCHANGED <<filterVars, senderVars, parserVars>>

InitCoordinator == FilterInit /\ CallIdle /\ SenderIdle /\ ParserIdle

NextCoordinator == \E audit_event \in LoopEvents : MonitoringIteration(audit_event)

SpecCoordinator == InitCoordinator /\ [][NextCoordinator]_vars

-----------------------------------------------------------------------------
(* AuditLogParser.hex_to_string and _parse_execve_event, one call each *)

\* the hex digits of the payloads handed to hex_to_string: "0", "2", "a" and
\* "c", which make among others the bytes 00 (NUL), 0a, 0c and 20 (white
\* space), 2a ("*"), c2 a0 (U+00A0, white space), cc a0 (U+0320) and the
\* bytes a0, c0 and c2 where they are no valid UTF-8
PayloadDigits == {48, 50, 97, 99}

RECURSIVE PayloadsOfLen(_)
PayloadsOfLen(n) ==
    IF n = 0 THEN {<<>>}
    ELSE {Append(t, d) : t \in PayloadsOfLen(n - 1), d \in PayloadDigits}

Payloads == UNION {PayloadsOfLen(n) : n \in 0 .. MaxPayloadLen}

\* one call of hex_to_string
HexToString(payload) ==
    /\ call = NoCall
    /\ call' = [op |-> "hex_to_string", arg |-> payload,
                result |-> hex_to_string(payload)]
    /\ UNCHANGED <<filterVars, senderVars, parserVars, command_history, tracked>>

\* one EXECVE line read by a parser with an empty session map, lines 85-93
\* and 131-134: the event parsed from it and whether it is yielded
ParseExecveLine(line) ==
    /\ call = NoCall
    /\ call' = [op |-> "_parse_execve_event", arg |-> line,
                result |-> [event |-> parse_execve_event(line),
                            emitted |-> Emits(parse_execve_event(line))]]
    /\ UNCHANGED <<filterVars, senderVars, parserVars, command_history, tracked>>

InitDecode == CallIdle /\ SenderIdle /\ FilterIdle /\ ParserIdle

NextDecode ==
    \/ \E payload \in Payloads : HexToString(payload)
    \/ \E line \in ExecveLines : ParseExecveLine(line)

SpecDecode == InitDecode /\ [][NextDecode]_vars

-----------------------------------------------------------------------------

Init == SenderInit /\ FilterIdle /\ ParserIdle /\ CallIdle

Next ==
    \/ start_sending
    \/ stop_all
    \/ JoinReturn
    \/ send_event
    \/ flush_queue
    \/ FlushCollect
    \/ \E w \in Workers : WorkerLoop(w)
    \/ \E w \in Workers : WorkerCollect(w)
    \/ \E w \in Workers : WorkerGet(w)
    \/ \E w \in Workers : WorkerGetTimeout(w)
    \/ \E t \in Threads, o \in Outcomes : SendAttempt(t, o)
    \/ \E t \in Threads : SendCommit(t)
    \/ \E t \in Threads : SendWake(t)
    \/ \E t \in Threads : SendFailed(t)

Spec == Init /\ [][Next]_vars

\* a started sender, its producer and a thread that reads the statistics
InitStats == SenderInit /\ FilterIdle /\ ParserIdle /\ CallIdle

NextStats ==
    \/ start_sending
    \/ send_event
    \/ get_stats
    \/ \E w \in Workers : WorkerLoop(w)
    \/ \E w \in Workers : WorkerCollect(w)
    \/ \E w \in Workers : WorkerGet(w)
    \/ \E w \in Workers : WorkerGetTimeout(w)
    \/ \E t \in Threads, o \in Outcomes : SendAttempt(t, o)
    \/ \E t \in Threads : SendCommit(t)
    \/ \E t \in Threads : SendWake(t)
    \/ \E t \in Threads : SendFailed(t)

SpecStats == InitStats /\ [][NextStats]_vars

InitFilter == FilterInit /\ SenderIdle /\ ParserIdle /\ CallIdle

NextFilter ==
    \/ \E v \in Values : CallUser(v)
    \/ \E v \in Values : CallCommand(v)
    \/ \E v \in Values : CallIp(v)

SpecFilter == InitFilter /\ [][NextFilter]_vars

InitSource == SourceInit /\ SenderIdle /\ FilterIdle /\ CallIdle

NextSource ==
    \/ start_monitoring
    \/ \E setup \in SetupOutcomes : StartMonitoringBody(setup)
    \/ stop_monitoring
    \/ \E ausearch_help \in BOOLEAN : parse_audit_logs(ausearch_help)
    \/ \E line \in Lines : ExistingLine(line)
    \/ \E audit_file \in BOOLEAN : ExistingEnd(audit_file)
    \/ \E line \in Lines : LiveLine(line)
    \/ \E how \in {"eof", "error"} : LiveEnd(how)
    \/ \E user \in demo_users, ip \in demo_ips, command \in demo_commands,
          pid \in demo_pids, exit_code \in demo_exit_codes :
             DemoEvent(user, ip, command, pid, exit_code)

SpecSource == InitSource /\ [][NextSource]_vars

\* the steps the generator takes without waiting for a line of the audit
\* stream: the body up to parse_audit_logs, the access test, the end of the
\* output of ausearch (the query ends by itself), the timer of demo mode.
\* Whether a further line is ever written to the audit log is up to the host.
SourceProgress ==
    \/ \E setup \in SetupOutcomes : StartMonitoringBody(setup)
    \/ \E ausearch_help \in BOOLEAN : parse_audit_logs(ausearch_help)
    \/ \E audit_file \in BOOLEAN : ExistingEnd(audit_file)
    \/ \E user \in demo_users, ip \in demo_ips, command \in demo_commands,
          pid \in demo_pids, exit_code \in demo_exit_codes :
             DemoEvent(user, ip, command, pid, exit_code)

SpecSourceFair == SpecSource /\ WF_vars(SourceProgress)

InitCorrelator == ParserIdle /\ SenderIdle /\ FilterIdle /\ CallIdle

NextCorrelator ==
    \/ \E line \in LoginLines : RecordLogin(line)
    \/ \E line \in LogoutLines : RecordLogout(line)

SpecCorrelator == InitCorrelator /\ [][NextCorrelator]_vars

-----------------------------------------------------------------------------
(* Delivery pipeline: properties *)

RECURSIVE Flat(_)
\* the events of the batches of a log, concatenated in log order
Flat(l) == IF l = << >> THEN << >> ELSE Head(l).events \o Flat(Tail(l))

RECURSIVE Size(_, _)
\* the number of events in the batches of a log whose result is r
Size(l, r) ==
    IF l = << >> THEN 0
    ELSE (IF Head(l).res = r THEN Len(Head(l).events) ELSE 0) + Size(Tail(l), r)

Increasing(s) == \A i, j \in 1 .. Len(s) : i < j => s[i] < s[j]

Ceil(n, b) == (n + b - 1) \div b

\* the sink has reached its stopped state: stop_sending has returned and no
\* worker thread is left
Stopped ==
    /\ ~sending
    /\ sender_thread # 0
    /\ thr[Caller].pc = "idle"
    /\ \A w \in Workers : thr[w].pc \in {"none", "done"}

\* nothing is in the queue or in a batch under way
Quiescent ==
    /\ event_queue = << >>
    /\ \A t \in Threads : thr[t].batch = NoBatch

\* one worker was started and neither stop_sending nor flush_queue was called
OneWorkerOnly == calls = 1 /\ sending

\* C1. Shutdown flushes: when the sink has reached its stopped state, every
\* event that was in the queue at the moment of the stop has been handed to
\* _send_batch and is counted in sent_events or failed_events.
C1_ShutdownFlushes ==
    Stopped =>
        \A e \in Range(stop_queue) :
            \E i \in 1 .. Len(log) : e \in Range(log[i].events) /\ log[i].res # "pending"

\* C2. Retry outcome: at most retry_attempts requests are made for a batch;
\* a thread about to make a request has made exactly as many requests as
\* attempts have failed; once a request is answered with 200 no thread goes on
\* with that batch; and a batch is counted once, in sent_events if it was
\* acknowledged and in failed_events otherwise.
C2_RetryOutcome ==
    /\ \A t \in Threads :
          /\ thr[t].requests <= retry_attempts
          /\ thr[t].pc = "send" =>
                thr[t].requests = thr[t].attempt /\ thr[t].attempt < retry_attempts
          /\ thr[t].slot # 0 => log[thr[t].slot].res = "pending"
    /\ stats.sent_events = Size(log, "ok")
    /\ stats.failed_events = Size(log, "failed")

\* C2 witness: with retry_attempts = 2 the first request of the first batch
\* failed with a network error and the second was answered with 200.
C2_Witness ==
    /\ retry_attempts = 2
    /\ Len(log) = 1
    /\ log[1].res = "ok"
    /\ stats.last_error = "set"
    /\ stats.sent_events = Len(log[1].events)
    /\ stats.failed_events = 0

\* C3. Linear backoff: a thread about to make attempt number k + 1 of a batch
\* (k >= 1 attempts have failed) has slept retry_delay * k since the k-th.
C3_LinearBackoff ==
    \A t \in Threads :
        (thr[t].pc = "send" /\ thr[t].attempt >= 1) =>
            thr[t].delay = RetryDelay * thr[t].attempt

\* C4. Retry exhaustion: the step that ends a batch whose attempts all failed
\* adds the batch size to failed_events, leaves sent_events and the queue as
\* they are, and leaves a worker at the head of its loop with an empty batch;
\* no event of a failed batch is in the queue afterwards.
C4_RetryExhaustion ==
    [][ /\ \A t \in Threads :
              (thr[t].pc = "fail" /\ thr'[t] # thr[t]) =>
                  /\ stats' = [stats EXCEPT !.failed_events = @ + Len(thr[t].batch)]
                  /\ event_queue' = event_queue
                  /\ log'[thr[t].slot].res = "failed"
                  /\ t \in Workers => thr'[t].pc = "loop" /\ thr'[t].batch = NoBatch
        /\ \A i \in 1 .. Len(log') :
              log'[i].res = "failed" =>
                  Range(log'[i].events) \cap Range(event_queue') = {}
      ]_vars

\* C4 witness: all attempts of the worker's first batch failed and the worker
\* has handed over a second batch.
C4_Witness ==
    /\ OneWorkerOnly
    /\ retry_attempts = 2
    /\ Len(log) = 2
    /\ log[1].res = "failed"
    /\ stats.failed_events = Len(log[1].events)
    /\ stats.last_error = "set"

\* the batches are the accepted events in order, cut into ceil(N / B) batches
\* of batch_size events and a last one with the remainder, all acknowledged
BatchesOfN ==
    /\ Len(log) = Ceil(Accepted, BatchSize)
    /\ \A i \in 1 .. Len(log) :
          /\ Len(log[i].events) =
                IF i < Len(log) THEN BatchSize ELSE Accepted - BatchSize * (i - 1)
          /\ log[i].res = "ok"
    /\ Flat(log) = [i \in 1 .. Accepted |-> i]
    /\ stats.sent_events = Accepted
    /\ stats.failed_events = 0

C6_OrderedDelivery == Increasing(received)

-----------------------------------------------------------------------------
(* Filter engine: properties *)

\* the value of the latest call matches an entry of the excluded list of its
\* dimension: equality for user and ip, containment for command
MatchesExcluded ==
    \/ answer.dim = "user" /\ answer.value \in config.excluded_users
    \/ answer.dim = "command"
          /\ \E e \in config.excluded_commands : Contains(answer.value, e)
    \/ answer.dim = "ip" /\ answer.value \in config.excluded_ips

\* the included list of the dimension of the latest call holds "*" or an
\* entry the value matches
MatchesIncluded ==
    \/ answer.dim = "user"
          /\ (Wildcard \in config.included_users
                 \/ answer.value \in config.included_users)
    \/ answer.dim = "command"
          /\ (Wildcard \in config.included_commands
                 \/ \E e \in config.included_commands : Contains(answer.value, e))
    \/ answer.dim = "ip"
          /\ (Wildcard \in config.included_ips \/ answer.value \in config.included_ips)

\* C7. Filter precedence: a value that matches the excluded list is rejected,
\* whatever the included list holds.
C7_ExcludeWins == (answer.dim # "none" /\ MatchesExcluded) => ~answer.result

\* C7 witness: a user that is excluded while the included list holds "*" and
\* the user itself.
C7_Witness ==
    /\ answer.dim = "user"
    /\ answer.value \in config.excluded_users
    /\ Wildcard \in config.included_users
    /\ answer.value \in config.included_users
    /\ ~answer.result

\* C8. Include or deny by default: a value that matches no excluded entry is
\* accepted iff the included list holds "*" or an entry the value matches.
C8_IncludeOrDeny ==
    (answer.dim # "none" /\ ~MatchesExcluded) => (answer.result <=> MatchesIncluded)

\* C8 witness: a command accepted because an included entry is a proper
\* substring of it, with no "*" among the included entries.
C8_Witness ==
    /\ answer.dim = "command"
    /\ ~MatchesExcluded
    /\ Wildcard \notin config.included_commands
    /\ answer.value \notin config.included_commands
    /\ answer.result

-----------------------------------------------------------------------------
(* Audit event source: properties *)

\* the latest step yielded an event parsed from a line of the audit stream
YieldedReal == yielded # NoEvent /\ "demo_mode" \notin DOMAIN yielded

\* C9. Completeness: every event yielded from the historical query or from
\* the passive tail has a non-empty timestamp, a non-empty user and a
\* non-empty command; a record whose decoded command is the empty string is
\* not emitted.
C9_Completeness ==
    YieldedReal =>
        /\ {"timestamp", "user", "command"} \subseteq DOMAIN yielded
        /\ yielded.timestamp # ""
        /\ yielded.user # ""
        /\ yielded.command # <<>>

-----------------------------------------------------------------------------
(* Session map: properties *)

lookup(session_id) ==
    IF session_id \in DOMAIN session_map THEN session_map[session_id] ELSE None

\* positions of hist holding a successful login with an address for id
LoginsOf(id) ==
    {i \in DOMAIN hist : /\ hist[i].type = "USER_LOGIN"
                         /\ hist[i].ses = id
                         /\ hist[i].res = "success"
                         /\ hist[i].addr # None}

LogoutsOf(id) == {i \in DOMAIN hist : hist[i].type = "USER_END" /\ hist[i].ses = id}

\* the logins of id that no later logout of id follows
OpenLoginsOf(id) == {i \in LoginsOf(id) : \A j \in LogoutsOf(id) : j < i}

MaxOf(S) == CHOOSE i \in S : \A j \in S : j <= i

\* lookup agrees with the record of the lines handled so far
LookupIsLatestOpenLogin ==
    /\ \A id \in SesIds :
          IF OpenLoginsOf(id) = {}
          THEN lookup(id) = None
          ELSE lookup(id) = hist[MaxOf(OpenLoginsOf(id))].addr
    /\ DOMAIN session_map \subseteq SesIds

\* a logout of an id the map does not hold leaves the map as it is
UnknownLogoutIsNoOp ==
    \A line \in LogoutLines :
        (RecordLogout(line) /\ line.ses \notin DOMAIN session_map)
            => session_map' = session_map

\* C10. Session correlation: after any sequence of login and logout records,
\* lookup of an id returns the address of the most recent successful login of
\* that id that no logout of that id follows, and absent if there is none; a
\* logout of an id the map does not hold leaves the map as it is.
C10_SessionCorrelation == []LookupIsLatestOpenLogin /\ [][UnknownLogoutIsNoOp]_vars

\* C10 witness: one id was logged in and then logged out and is absent, while
\* the other id is still mapped to the address of its login.
C10_Witness ==
    /\ Len(hist) = MaxSessionLines
    /\ \E id \in SesIds :
          /\ Cardinality(LoginsOf(id)) >= 1
          /\ LogoutsOf(id) # {}
          /\ OpenLoginsOf(id) = {}
          /\ lookup(id) = None
    /\ \E id \in SesIds : OpenLoginsOf(id) # {} /\ lookup(id) \in Addrs

-----------------------------------------------------------------------------
(* Audit event source: strategies and cancellation *)

SuccessfulLogins == {l \in LoginLines : l.ses # None /\ l.addr # None /\ l.res = "success"}

\* C11. Login/logout handling in every strategy: a step of the historical
\* query or of the passive tail that reads a successful login line leaves the
\* session map holding that line's address for its session id, and a step
\* that reads a logout line leaves no entry for its session id.
C11_LoginLogoutInEveryStrategy ==
    [][ /\ \A line \in SuccessfulLogins :
              (ExistingLine(line) \/ LiveLine(line)) =>
                  (line.ses \in DOMAIN session_map' /\ session_map'[line.ses] = line.addr)
        /\ \A line \in LogoutLines :
              (ExistingLine(line) \/ LiveLine(line)) => line.ses \notin DOMAIN session_map'
      ]_vars

\* the host of the fallback chain: not root, a readable audit log file
Unprivileged == ~env.root /\ env.audit_file

\* C12. Fallback chain: on a host without root and with a readable audit log
\* file, the source goes from its start to the historical query and, when the
\* query ends without a record, to the passive tail; demo mode is entered
\* from the passive tail only (when the tail itself fails); and no event
\* yielded in passive tail mode is a synthesized one.
C12_FallbackChain ==
    /\ [][ Unprivileged =>
              /\ (mode = "start" /\ mode' # "start") => mode' = "existing"
              /\ (mode = "existing" /\ mode' # "existing" /\ ~records_read') => mode' = "live"
              /\ (mode # "demo" /\ mode' = "demo") => mode = "live"
         ]_vars
    /\ []((mode = "live" /\ yielded # NoEvent) => "demo_mode" \notin DOMAIN yielded)

\* C12 witness: without root, with a readable file and after a query without
\* a record, the passive tail has yielded an event parsed from a line.
C12_Witness ==
    /\ Unprivileged
    /\ ~records_read
    /\ mode = "live"
    /\ YieldedReal
    /\ "command" \in DOMAIN yielded

\* C13. Acquisition errors are non-fatal: no exception leaves the event
\* sequence, and when the passive tail fails while the source is running the
\* source goes on in demo mode.
C13_AcquisitionErrorsNonFatal ==
    /\ [](mode # "raised")
    /\ [][(mode = "live" /\ mode' # "live" /\ running) => mode' = "demo"]_vars

\* C14. No event after stop: once stop_monitoring has been called, no step
\* hands a further event to the consumer of start_monitoring (the event of
\* the latest step before the call stays the latest one).
C14_NoEventAfterStop ==
    [][stop_called => (yielded' = NoEvent \/ yielded' = yielded)]_vars

\* C15. Prompt stop in tail mode: when stop_monitoring has been called while
\* the source is in passive tail mode, the sequence ends, whether or not a
\* further line is written to the audit log.
C15_PromptStopInTailMode == (stop_called /\ mode = "live") ~> (mode = "ended")

\* C16. Non-terminating source: the event sequence ends only after a stop has
\* been requested.
C16_EndsOnlyAfterStop == (mode = "ended") => stop_called

-----------------------------------------------------------------------------
(* Delivery pipeline: queue *)

\* C17. enqueue never blocks and never drops: with a server URL, send_event
\* can be taken in every state (up to the number of calls explored) and its
\* step leaves the queue as it was with the event appended at the tail,
\* without a step of any thread and without a change of the statistics.
C17_EnqueueAppends ==
    /\ []((offered < MaxEvents) => ENABLED send_event)
    /\ [][ (offered' # offered /\ server_url # "None") =>
              /\ event_queue' = Append(event_queue, offered')
              /\ thr' = thr
              /\ stats' = stats
         ]_vars

\* C17 witness: the sink fails, a batch has been counted as failed, and the
\* queue holds two events enqueued after that batch was cut.
C17_Witness ==
    /\ sink = "unreliable"
    /\ stats.failed_events > 0
    /\ late_enqueue
    /\ Len(event_queue) >= 2

\* C18. Bounded memory: the queue holds fewer events than the producer has
\* offered in the longest run explored, that is, the size of the queue has a
\* bound that does not grow with the number of send_event calls.
C18_BoundedQueue == Len(event_queue) < MaxEvents

\* the step in which flush_queue leaves its collection loop (lines 177-183):
\* it hands its batch to _send_batch or, with nothing collected, returns
FlushHandsOver == thr[Caller].pc = "fget" /\ thr'[Caller].pc # "fget"

\* C19. Flush drains: when flush_queue has emptied the queue and no event was
\* enqueued since it was called, the events that were queued at the call are
\* handed, all of them and in queue order, to one send, and a flush_queue
\* that found the queue empty sends nothing. Without an enqueue the queue
\* stays empty from this step until flush_queue returns.
C19_FlushDrains ==
    [][ (FlushHandsOver /\ offered = flush_start.offered) =>
            /\ event_queue' = << >>
            /\ IF flush_start.queue = << >>
               THEN log' = log /\ thr'[Caller].pc = "idle"
               ELSE /\ log' = Append(log, LogEntry(flush_start.queue))
                    /\ thr'[Caller].batch = flush_start.queue
      ]_vars

\* C20. Stats snapshot consistency: in every snapshot returned by get_stats
\* a positive sent_events comes with last_sent set; a snapshot is taken
\* while no writer holds stats_lock and equals the statistics of that
\* instant; a snapshot already returned is not changed by a later update of
\* the statistics.
C20_SnapshotConsistency ==
    /\ [](snapshot # NoSnapshot => (snapshot.sent_events > 0 => snapshot.last_sent # "None"))
    /\ [][ snapshot' # snapshot => (stats_lock = 0 /\ snapshot' = stats) ]_vars
    /\ [][ (snapshot # NoSnapshot /\ stats' # stats) => snapshot' = snapshot ]_vars

\* C20 witness: a snapshot taken after a delivered batch, and the worker
\* has updated the statistics since.
C20_Witness ==
    /\ snapshot # NoSnapshot
    /\ snapshot.sent_events > 0
    /\ stats # snapshot

\* the threads inside a loop that removes events from the queue: a worker in
\* its collection loop (lines 86-91), flush_queue in its loop (lines 177-182)
Consumers == {t \in Threads : thr[t].pc \in {"get", "collect", "fget"}}

\* the worker threads that have been started and have not ended
LiveWorkers == {w \in Workers : thr[w].pc \notin {"none", "done"}}

\* C21. Single consumer per sink: at most one thread at a time is removing
\* events from the queue, and at most one worker thread is alive.
C21_SingleConsumer == Cardinality(Consumers) <= 1 /\ Cardinality(LiveWorkers) <= 1

\* C22. Cancellable worker: once the running flag is cleared a worker does
\* not wait out the backoff of a failing batch: it starts no backoff sleep,
\* and no sleep under way ends in a further attempt.
C22_CancellableWorker ==
    [][ \A w \in Workers :
            ~sending =>
                /\ ~(thr[w].pc # "sleep" /\ thr'[w].pc = "sleep")
                /\ ~(thr[w].pc = "sleep" /\ thr'[w].pc = "send")
      ]_vars

\* the fields of the record carried by the historical-query loop
Carried(event) == IF event = NoEvent THEN {} ELSE DOMAIN event

\* C23. Carry-forward of partial records: while the historical query is
\* read, every field of an incomplete record that is carried is still there
\* after the next line, in the record carried on or in the record emitted:
\* the partial record is merged with what follows, never discarded.
C23_CarryForward ==
    [][ (mode = "existing" /\ mode' = "existing" /\ current_event # NoEvent) =>
            Carried(current_event) \subseteq (Carried(current_event') \cup Carried(yielded'))
      ]_vars

\* C25. Batch sent verbatim on retry: all requests made for one batch carry
\* the same envelope, which has the source tag, the events of the batch in
\* their order and their number as count.
C25_VerbatimRetry ==
    \A i \in 1 .. Len(log) :
        /\ Cardinality(log[i].payloads) <= 1
        /\ \A p \in log[i].payloads :
              /\ p.source = "secu-beat"
              /\ p.events = log[i].events
              /\ p.count = Len(p.events)

\* C25 witness: two requests were made for a batch.
C25_Witness ==
    \E t \in Threads :
        /\ thr[t].requests >= 2
        /\ Cardinality(log[thr[t].slot].payloads) = 1

-----------------------------------------------------------------------------
(* Webhook and syslog sinks: properties *)

\* the latest call is a send_event of a single-event sink, and what it
\* transmitted
WebhookCall == call.op = "WebhookSender.send_event"
SyslogCall == call.op = "SyslogSender.send_event"

-----------------------------------------------------------------------------
(* Formatter and delivery path: properties *)

\* the latest call is an iteration of the monitoring loop
Delivered == call.op = "_monitoring_loop"

\* C26. Synthetic events are distinguishable: an event of the source carries
\* the demo tag exactly when it was synthesized in demo mode, and the
\* formatted event handed to the sinks carries the tag exactly when the
\* event of the source does.
C26_DemoTagDelivered ==
    Delivered =>
        /\ (call.arg.origin = "demo") <=> ("demo_mode" \in DOMAIN call.arg.event)
        /\ ("demo_mode" \in DOMAIN call.arg.event) <=> ("demo_mode" \in DOMAIN call.result)

\* the latest call is a call of format_command_event
Formatted == call.op = "format_command_event"

\* the event has a value other than None under the key
HasValue(event, key) == key \in DOMAIN event /\ ~IsNone(event[key])

\* C29. Sparse encoding: the formatted event has version, timestamp and
\* event_type, and has any other key of the format exactly when the input
\* event has a value other than None for it; it has no further key.
C29_SparseEncoding ==
    Formatted =>
        /\ {"version", "timestamp", "event_type"} \subseteq DOMAIN call.result
        /\ DOMAIN call.result \subseteq FormattedKeys
        /\ \A key \in FormattedKeys \ {"version", "timestamp", "event_type"} :
              (key \in DOMAIN call.result) <=> HasValue(call.arg, key)

-----------------------------------------------------------------------------
(* Hex decoding: properties *)

\* the latest call is hex_to_string on a payload of whole byte pairs
DecodedPairs == call.op = "hex_to_string" /\ Len(call.arg) % 2 = 0

\* C27. Hex decoding round-trip: for a payload of valid byte pairs with
\* s = hex_to_string(payload), hex_to_string of the hex encoding of s is s.
C27_HexRoundTrip ==
    DecodedPairs => hex_to_string(hex(encode(call.result))) = call.result

\* C27 witness: a payload whose decoding has a NUL between two other
\* characters, which the result has as a space.
C27_Witness ==
    /\ DecodedPairs
    /\ 0 \in Range(decode(fromhex(call.arg)))
    /\ 32 \in Range(call.result)

\* the token of the latest call has an odd number of hex digits
OddToken(token) == Len(token) % 2 = 1

\* C28. Decode failure passes through: hex_to_string of a token that cannot
\* be decoded is the token itself; an EXECVE line with such a token gives
\* an event whose command is the token, and the event is yielded exactly
\* when the line has a uid, as for a token that can be decoded.
C28_DecodeFailurePassThrough ==
    /\ (call.op = "hex_to_string" /\ OddToken(call.arg)) => call.result = call.arg
    /\ (call.op = "_parse_execve_event" /\ OddToken(call.arg.proctitle)) =>
          /\ call.result.event.command = call.arg.proctitle
          /\ call.result.emitted <=> (call.arg.uid # None)

\* C28 witness: a line with a uid and a token of one hex digit was read and
\* its event yielded.
C28_Witness ==
    /\ call.op = "_parse_execve_event"
    /\ OddToken(call.arg.proctitle)
    /\ call.result.emitted

-----------------------------------------------------------------------------
(* Delivery pipeline: accounting *)

RECURSIVE Held(_)
\* the number of events in the local batches of a set of threads
Held(T) ==
    IF T = {} THEN 0
    ELSE LET t == CHOOSE x \in T : TRUE
         IN  Len(thr[t].batch) + Held(T \ {t})

\* no event is in two batches handed to _send_batch
NoDuplicates(s) == \A i, j \in 1 .. Len(s) : i # j => s[i] # s[j]

\* C31. Event accounting: the events accepted by send_event are those in
\* the queue, those in a batch being collected or sent, those counted in
\* sent_events and those counted in failed_events; a batch is counted in
\* sent_events exactly when it was acknowledged and in failed_events
\* exactly when its attempts ran out, and no event is in two batches.
C31_EventAccounting ==
    /\ Accepted = Len(event_queue) + Held(Threads)
                      + stats.sent_events + stats.failed_events
    /\ stats.sent_events = Size(log, "ok")
    /\ stats.failed_events = Size(log, "failed")
    /\ NoDuplicates(Flat(log))

\* C31 witness: one event was delivered, one was counted as failed and one
\* is in the queue or in a batch.
C31_Witness ==
    /\ stats.sent_events > 0
    /\ stats.failed_events > 0
    /\ Len(event_queue) + Held(Threads) > 0

\* C32. No failure without an attempt: for every retry_attempts accepted by
\* the validation (0 or more), a batch counted in failed_events had at least
\* one request made for it.  It fails: with retry_attempts = 0 the loop of
\* line 114 has no iteration and the batch is counted as failed at once.
C32_NoFailureWithoutAttempt ==
    \A i \in 1 .. Len(log) :
        log[i].res = "failed" => log[i].payloads # {}

-----------------------------------------------------------------------------
(* Event source: the end of the historical query *)

\* the historical query printed records: ausearch then exits with status 0
\* (it exits with a non-zero status when nothing matched)
QuerySucceeded == records_read

\* C33. No fall-through after a successful query: when the historical query
\* has printed its records and ended with status zero, the source does not
\* go on to _live_monitoring (the passive tail, or demo mode when no audit
\* file is readable).  It fails: process.returncode is still None at line
\* 97, nothing having waited for the process, so _live_monitoring is
\* started after every query.
C33_NoFallThrough ==
    [][(mode = "existing" /\ mode' # "existing" /\ QuerySucceeded)
           => mode' \notin {"live", "demo"}]_vars

\* a step of the loop of _parse_existing_logs or of _live_monitoring that
\* yields the event of the record it has just parsed
YieldsParsed ==
    /\ mode \in {"existing", "live"}
    /\ running /\ running'
    /\ yielded' # NoEvent

\* the session id of the record an event was parsed from (lines 217-219)
SessionOf(event) ==
    IF "session_id" \in DOMAIN event THEN event["session_id"] ELSE None

\* the session map holds an entry for the session id
Mapped(ses) == ses # None /\ ses \in DOMAIN session_map

\* C35. Enrichment by correlation only: in every step that parses an
\* execution record and yields its event, the event carries source_ip
\* exactly when the session map, as it is when the record is parsed, has an
\* entry for the record's session id, and source_ip is that entry; a record
\* without session id or with an unmapped one gives an event without
\* source_ip.
C35_EnrichmentByCorrelation ==
    [][YieldsParsed =>
          LET ses == SessionOf(yielded')
          IN  /\ "source_ip" \in DOMAIN yielded' <=> Mapped(ses)
              /\ Mapped(ses) => yielded'["source_ip"] = session_map[ses]
      ]_vars

\* C35 witness: an event parsed from an execution record was yielded with
\* the address the session map holds for its session.
C35_Witness ==
    /\ YieldedReal
    /\ "source_ip" \in DOMAIN yielded
    /\ "session_id" \in DOMAIN yielded
    /\ yielded["session_id"] \in DOMAIN session_map
    /\ yielded["source_ip"] = session_map[yielded["session_id"]]

-----------------------------------------------------------------------------
(* Coordinator: properties *)

\* the iteration went on to enhance, output and send its event
Forwarded == call.op = "_monitoring_loop" /\ call.result # Skipped

\* C34. Coordinator filtering: an event is enhanced, output and sent to the
\* sinks only if the user filter, the command filter and the source IP
\* filter all include it; an event with no source IP is forwarded only
\* when the included IP list has "*" (no entry can match it).  It fails:
\* _should_process_event skips the IP filter for an event without source_ip.
C34_CoordinatorFiltering ==
    Forwarded =>
        /\ should_include_user(call.arg["user"])
        /\ should_include_command(call.arg["command"])
        /\ IF "source_ip" \in DOMAIN call.arg
           THEN should_include_ip(call.arg["source_ip"])
           ELSE Wildcard \in config.included_ips /\ << >> \notin config.excluded_ips

-----------------------------------------------------------------------------
(* MultiSender: properties *)

\* the configured senders in the order HTTP, webhook, syslog
ConfiguredInOrder(cfg) ==
    SelectSeq(<<"NetworkSender", "WebhookSender", "SyslogSender">>,
              LAMBDA name : \/ name = "NetworkSender" /\ cfg.server_url
                            \/ name = "WebhookSender" /\ cfg.webhook_url
                            \/ name = "SyslogSender" /\ cfg.syslog_server)

\* C36. Sink isolation in dispatch: for every event passed to
\* MultiSender.send_event, send_event of each configured sender is invoked
\* exactly once with that event, in the order HTTP, webhook, syslog, also
\* when an earlier sender raises, and no exception leaves the call.
C36_SinkIsolation ==
    call.op = "MultiSender.send_event" =>
        LET order == ConfiguredInOrder(call.arg.config)
        IN  /\ Len(call.result.invoked) = Len(order)
            /\ \A i \in 1 .. Len(order) :
                   call.result.invoked[i] = [sender |-> order[i], event |-> call.arg.event]
            /\ ~call.result.raised

\* C36 witness: with the three senders configured the first one raised and
\* the two others were invoked after it.
C36_Witness ==
    /\ call.op = "MultiSender.send_event"
    /\ call.arg.config = [server_url |-> TRUE, webhook_url |-> TRUE, syslog_server |-> TRUE]
    /\ "NetworkSender" \in call.arg.raising
    /\ Len(call.result.invoked) = 3
    /\ call.result.invoked[3].sender = "SyslogSender"

-----------------------------------------------------------------------------
(* Delivery pipeline: after the stop *)

\* stop_sending has returned and start_sending has not been called since
StopReturned == ~sending /\ calls > 0 /\ thr[Caller].pc # "join"

\* C37. Quiescence after stop: once stop_sending has returned, no step of a
\* worker thread is a request to the server and no step of a worker thread
\* changes the statistics.  It fails: join(timeout=5) returns while the
\* worker is still inside _send_batch.
C37_QuiescenceAfterStop ==
    [][ StopReturned =>
            \A w \in Workers :
                thr'[w] # thr[w] => (thr[w].pc # "send" /\ stats' = stats)
      ]_vars

\* C38. Failure is explained: whenever a batch has been counted in
\* failed_events, last_error is set; and sent_events and failed_events never
\* decrease.  It fails: last_error is set only for a RequestException
\* (line 132), not for an answer other than 200, for another exception or
\* for a batch that had no attempt.
C38_FailureExplained ==
    /\ [](stats.failed_events > 0 => stats.last_error # "None")
    /\ [][ /\ stats'.sent_events >= stats.sent_events
           /\ stats'.failed_events >= stats.failed_events ]_vars

-----------------------------------------------------------------------------
(* Command history: properties *)

\* C39. Bounded command history: after every call of
\* track_command_with_audit the history holds at most 1000 events, and they
\* are the most recently tracked events in tracking order: the newest is
\* last, and the events dropped are the oldest.
C39_BoundedHistory ==
    LET kept == IF tracked <= HistoryLimit THEN tracked ELSE HistoryLimit
    IN  /\ Len(command_history) <= HistoryLimit
        /\ Len(command_history) = kept
        /\ \A i \in 1 .. kept :
               command_history[i] = AuditEventNo(tracked - kept + i)

\* C39 witness: more than 1000 events were tracked; the history holds 1000
\* of them, the last tracked one at its end and the first tracked one gone.
C39_Witness ==
    /\ tracked > HistoryLimit
    /\ Len(command_history) = HistoryLimit
    /\ command_history[HistoryLimit] = AuditEventNo(tracked)
    /\ command_history[1] # AuditEventNo(1)

====
